---- MODULE Spec2Model ----
(***************************************************************************)
(* Model of uavcan::DataTypeInfoProvider                                   *)
(* (libuavcan/include/uavcan/protocol/data_type_info_provider.hpp).        *)
(*                                                                         *)
(* The provider owns two service servers (cats_srv_, gdti_srv_) and two    *)
(* request handlers.  The global data type registry, the dispatcher and    *)
(* the service servers are collaborators whose code lives in other files   *)
(* of libuavcan; they are modelled at their interface.                     *)
(*                                                                         *)
(* Representation choices:                                                 *)
(*  - a 64-bit signature is a tuple of four 16-bit limbs, most significant *)
(*    first, so that no arithmetic leaves TLC's integer range;             *)
(*  - a bit mask (array of bool) is [len, bits]: its length and the set of *)
(*    positions holding a one.  Every other position below len is zero.    *)
(*  - a descriptor pointer is the set of matching descriptors: {} is NULL. *)
(***************************************************************************)
EXTENDS Integers, FiniteSets, Sequences

VARIABLES
    registry,        \* GlobalDataTypeRegistry: the frozen set of descriptors
    hasServer,       \* Dispatcher: ids with a service server
    hasSubscriber,   \* Dispatcher: ids with a message subscriber
    hasPublisher,    \* Dispatcher: ids with a message publisher
    cats_started,    \* cats_srv_ has its handler registered
    gdti_started,    \* gdti_srv_ has its handler registered
    start_returned,  \* start() has returned at least once
    start_res,       \* what the last start() returned
    gdti_tried,      \* the last start() called gdti_srv_.start()
    last,            \* the request handled last, with its response
    noted            \* an earlier request and its response, kept for comparison

vars == <<registry, hasServer, hasSubscriber, hasPublisher, cats_started,
          gdti_started, start_returned, start_res, gdti_tried, last, noted>>

----------------------------------------------------------------------------
(* Bounds of the model *)

\* request.kind.value ranges over 0..MaxKindValue; values above 1 are invalid
MaxKindValue == 2
\* a request mask holds at most this many ones
MaxMaskBits == 1

----------------------------------------------------------------------------
(* Protocol constants *)

DataTypeKindService == 0
DataTypeKindMessage == 1

MaxServiceDataTypeIDValue == 255
MaxMessageDataTypeIDValue == 65535

MASK_KNOWN == 1
MASK_SUBSCRIBED == 2
MASK_PUBLISHING == 4
MASK_SERVING == 8

Uint16Modulus == 65536

----------------------------------------------------------------------------
(* Signatures: 64 bits as four 16-bit limbs *)

ZeroSignature == <<0, 0, 0, 0>>

\* DataTypeSignature::extend, as the order-independent mixing of two
\* signatures: addition modulo 2^64, limb by limb with carry.
SignatureExtend(a, b) ==
    LET s4 == a[4] + b[4]
        s3 == a[3] + b[3] + (s4 \div Uint16Modulus)
        s2 == a[2] + b[2] + (s3 \div Uint16Modulus)
        s1 == a[1] + b[1] + (s2 \div Uint16Modulus)
    IN  <<s1 % Uint16Modulus, s2 % Uint16Modulus,
          s3 % Uint16Modulus, s4 % Uint16Modulus>>

----------------------------------------------------------------------------
(* Masks *)

EmptyMask == [len |-> 0, bits |-> {}]

\* bit i of a mask; positions at or beyond the length read as zero
MaskBit(mask, i) == i < mask.len /\ i \in mask.bits

\* Array::resize: grows with zeros, shrinks by dropping the tail
resize(mask, new_size) ==
    [len |-> new_size, bits |-> {i \in mask.bits : i < new_size}]

\* static_cast<uint16_t>
ToUint16(x) == x % Uint16Modulus

----------------------------------------------------------------------------
(* Data type kinds and ids *)

isValidDataTypeKind(kind) ==
    (kind = DataTypeKindMessage) \/ (kind = DataTypeKindService)

getMaxValueForDataTypeKind(kind) ==
    IF kind = DataTypeKindService THEN MaxServiceDataTypeIDValue
    ELSE MaxMessageDataTypeIDValue

----------------------------------------------------------------------------
(* The registry *)

\* The types a node registers before it freezes the registry, in the order
\* it registers them.  A message and a service type share the id 20.
RegistrationOrder ==
    << [kind |-> DataTypeKindMessage, id |-> 20, name |-> "foo.Bar",
        sig |-> <<43707, 52445, 4386, 13124>>],
       [kind |-> DataTypeKindService, id |-> 20, name |-> "baz.Srv",
        sig |-> <<1, 2, 3, 4>>],
       [kind |-> DataTypeKindMessage, id |-> 1, name |-> "qux.Msg",
        sig |-> <<21829, 65535, 65535, 60000>>] >>

Registries ==
    {{RegistrationOrder[i] : i \in 1..n} : n \in 0..Len(RegistrationOrder)}

\* GlobalDataTypeRegistry::find(kind, id)
findByKindId(kind, id) == {d \in registry : d.kind = kind /\ d.id = id}

\* GlobalDataTypeRegistry::find(name)
findByName(name) == {d \in registry : d.name = name}

RECURSIVE ExtendInIdOrder(_, _)
ExtendInIdOrder(descs, acc) ==
    IF descs = {} THEN acc
    ELSE LET d == CHOOSE x \in descs : \A y \in descs : x.id <= y.id
         IN  ExtendInIdOrder(descs \ {d}, SignatureExtend(acc, d.sig))

\* GlobalDataTypeRegistry::computeAggregateSignature(kind, mask): every
\* descriptor of the kind is mixed in, by ascending id; the mask is left as
\* it was given.
computeAggregateSignature(kind, mask) ==
    ExtendInIdOrder({d \in registry : d.kind = kind}, ZeroSignature)

----------------------------------------------------------------------------
(* Requests and responses *)

KindValues == 0..MaxKindValue
IdValues == {1, 20}
NameValues == {"", "foo.Bar", "no.Such"}
MaskLengths == {3, 256, 65536}
MaskPositions == {1, 300}

RequestMasks ==
    {m \in [len : MaskLengths, bits : SUBSET MaskPositions] :
        /\ Cardinality(m.bits) <= MaxMaskBits
        /\ \A i \in m.bits : i < m.len}

CatsRequests == [kind : KindValues, known_ids : RequestMasks]

GdtiRequests == [name : NameValues, kind : KindValues, id : IdValues]

\* The response structs as the service server hands them to the handler
ZeroCatsResponse ==
    [mutually_known_ids |-> EmptyMask, aggregate_signature |-> ZeroSignature]

ZeroGdtiResponse ==
    [signature |-> ZeroSignature, id |-> 0, kind |-> 0, mask |-> 0, name |-> ""]

NoObservation == [op |-> "none"]

Observation(op, request, out) ==
    [op |-> op, request |-> request, response |-> out.response,
     called |-> out.called]

----------------------------------------------------------------------------
(* ComputeAggregateTypeSignature *)

\* Variant: only the descriptors whose bit is set in the mask are mixed in.
handleCats_GatedByMask(request, response) ==
    LET kind == request.kind
    IN  IF ~isValidDataTypeKind(kind)
        THEN [response |-> response, called |-> "none"]
        ELSE LET mask == resize(request.known_ids,
                                ToUint16(getMaxValueForDataTypeKind(kind) + 1))
             IN  [response |->
                     [mutually_known_ids |-> mask,
                      aggregate_signature |->
                          ExtendInIdOrder({d \in registry :
                                              /\ d.kind = kind
                                              /\ MaskBit(mask, d.id)},
                                          ZeroSignature)],
                  called |-> "computeAggregateSignature"]

\* The handler's result: the response struct as it leaves the handler, and
\* the registry call the handler made ("none" when it made none).
handleComputeAggregateTypeSignatureRequest(request, response) ==
    LET kind == request.kind
    IN  IF ~isValidDataTypeKind(kind)
        THEN [response |-> response, called |-> "none"]
        ELSE LET copied == [response EXCEPT
                               !.mutually_known_ids = request.known_ids]
                 resized == [copied EXCEPT
                               !.mutually_known_ids =
                                   resize(@, ToUint16(
                                       getMaxValueForDataTypeKind(kind) + 1))]
             IN  [response |->
                     [resized EXCEPT
                         !.aggregate_signature =
                             computeAggregateSignature(
                                 kind, resized.mutually_known_ids)],
                  called |-> "computeAggregateSignature"]

----------------------------------------------------------------------------
(* GetDataTypeInfo *)

\* mask |= bit, for a one-bit constant
SetBit(mask, bit) == IF (mask \div bit) % 2 = 1 THEN mask ELSE mask + bit

HasBit(mask, bit) == (mask \div bit) % 2 = 1

\* Variant: the dispatcher is asked without looking at the descriptor's kind.
StatusMask_IgnoringKind(desc) ==
    LET srv == IF desc.id \in hasServer
               THEN SetBit(MASK_KNOWN, MASK_SERVING) ELSE MASK_KNOWN
        sub == IF desc.id \in hasSubscriber
               THEN SetBit(srv, MASK_SUBSCRIBED) ELSE srv
    IN  IF desc.id \in hasPublisher THEN SetBit(sub, MASK_PUBLISHING) ELSE sub

\* The status mask of a found descriptor
StatusMask(desc) ==
    LET known == MASK_KNOWN
    IN  IF desc.kind = DataTypeKindService
        THEN IF desc.id \in hasServer
             THEN SetBit(known, MASK_SERVING) ELSE known
        ELSE IF desc.kind = DataTypeKindMessage
        THEN LET sub == IF desc.id \in hasSubscriber
                        THEN SetBit(known, MASK_SUBSCRIBED) ELSE known
             IN  IF desc.id \in hasPublisher
                 THEN SetBit(sub, MASK_PUBLISHING) ELSE sub
        ELSE known

\* Variant: the id and kind written before the lookup are left in place.
FillResponse_KeepingEcho(response, descs, called) ==
    IF descs = {}
    THEN [response |-> response, called |-> called]
    ELSE LET desc == CHOOSE d \in descs : TRUE
         IN  [response |->
                 [response EXCEPT !.signature = desc.sig,
                                  !.mask = StatusMask(desc),
                                  !.name = desc.name],
              called |-> called]

\* Variant: the known bit is set before the NULL check.
FillResponse_KnownFirst(response, descs, called) ==
    LET known == [response EXCEPT !.mask = MASK_KNOWN]
    IN  IF descs = {}
        THEN [response |-> known, called |-> called]
        ELSE LET desc == CHOOSE d \in descs : TRUE
             IN  [response |->
                     [known EXCEPT !.signature = desc.sig,
                                   !.id = desc.id,
                                   !.kind = desc.kind,
                                   !.mask = StatusMask(desc),
                                   !.name = desc.name],
                  called |-> called]

\* From the NULL check to the end of the handler
FillResponse(response, descs, called) ==
    IF descs = {}
    THEN [response |-> response, called |-> called]
    ELSE LET desc == CHOOSE d \in descs : TRUE
         IN  [response |->
                 [response EXCEPT !.signature = desc.sig,
                                  !.id = desc.id,
                                  !.kind = desc.kind,
                                  !.mask = StatusMask(desc),
                                  !.name = desc.name],
              called |-> called]

\* Variant: the kind of an id-based request is not validated.
handleGdti_NoKindCheck(request, response) ==
    IF request.name = ""
    THEN FillResponse([response EXCEPT !.id = request.id,
                                       !.kind = request.kind],
                      findByKindId(request.kind, request.id), "find_kind_id")
    ELSE FillResponse([response EXCEPT !.name = request.name],
                      findByName(request.name), "find_name")

\* Variant: id and kind are echoed before the branch on the name.
handleGdti_EchoFirst(request, response) ==
    LET echoed == [response EXCEPT !.id = request.id, !.kind = request.kind]
    IN  IF request.name = ""
        THEN IF ~isValidDataTypeKind(request.kind)
             THEN [response |-> echoed, called |-> "none"]
             ELSE FillResponse(echoed,
                               findByKindId(request.kind, request.id),
                               "find_kind_id")
        ELSE FillResponse([echoed EXCEPT !.name = request.name],
                          findByName(request.name), "find_name")

\* Variant: the handler fills a struct it keeps from its previous call
\* instead of the one it is handed.
handleGdti_KeepingResponse(request, response) ==
    LET kept == IF last.op = "gdti" THEN last.response ELSE response
    IN  IF request.name = ""
        THEN LET pre == [kept EXCEPT !.id = request.id,
                                     !.kind = request.kind]
             IN  IF ~isValidDataTypeKind(request.kind)
                 THEN [response |-> pre, called |-> "none"]
                 ELSE FillResponse(pre,
                                   findByKindId(request.kind, request.id),
                                   "find_kind_id")
        ELSE FillResponse([kept EXCEPT !.name = request.name],
                          findByName(request.name), "find_name")

handleGetDataTypeInfoRequest(request, response) ==
    IF request.name = ""
    THEN LET pre == [response EXCEPT !.id = request.id,
                                     !.kind = request.kind]
         IN  IF ~isValidDataTypeKind(request.kind)
             THEN [response |-> pre, called |-> "none"]
             ELSE FillResponse(pre, findByKindId(request.kind, request.id),
                               "find_kind_id")
    ELSE LET pre == [response EXCEPT !.name = request.name]
         IN  FillResponse(pre, findByName(request.name), "find_name")

----------------------------------------------------------------------------
(* start() *)

CatsStartResults == {-2, 0, 1}
GdtiStartResults == {-3, 0}

\* Variant: a failure of gdti_srv_.start() leaves cats_srv_ as it is.
start_NoRollback(cats_res, gdti_res) ==
    IF cats_res < 0
    THEN [res |-> cats_res, cats |-> FALSE, gdti |-> FALSE, tried |-> FALSE]
    ELSE IF gdti_res < 0
    THEN [res |-> gdti_res, cats |-> TRUE, gdti |-> FALSE, tried |-> TRUE]
    ELSE [res |-> gdti_res, cats |-> TRUE, gdti |-> TRUE, tried |-> TRUE]

\* start(), given what cats_srv_.start() and gdti_srv_.start() return.
\* A server whose start() succeeded has its handler registered; stop()
\* unregisters it.
start(cats_res, gdti_res) ==
    IF cats_res < 0
    THEN [res |-> cats_res, cats |-> FALSE, gdti |-> FALSE, tried |-> FALSE]
    ELSE IF gdti_res < 0
    THEN [res |-> gdti_res, cats |-> FALSE, gdti |-> FALSE, tried |-> TRUE]
    ELSE [res |-> gdti_res, cats |-> TRUE, gdti |-> TRUE, tried |-> TRUE]

----------------------------------------------------------------------------
(* The state machine *)

DispatcherIds == {20}

Init ==
    /\ registry \in Registries
    /\ hasServer \in SUBSET DispatcherIds
    /\ hasSubscriber \in SUBSET DispatcherIds
    /\ hasPublisher \in SUBSET DispatcherIds
    /\ cats_started = FALSE
    /\ gdti_started = FALSE
    /\ start_returned = FALSE
    /\ start_res = 0
    /\ gdti_tried = FALSE
    /\ last = NoObservation
    /\ noted = NoObservation

\* When a request arrives, the observation of the previous request may be
\* kept aside, once, to be compared with the requests that follow.
NoteChoices ==
    IF noted = NoObservation /\ last # NoObservation THEN BOOLEAN ELSE {FALSE}

\* The node calls start().  The observations kept are those made since the
\* service was last started.
Start ==
    \E cats_res \in CatsStartResults, gdti_res \in GdtiStartResults :
        LET out == start(cats_res, gdti_res)
        IN  /\ cats_started' = out.cats
            /\ gdti_started' = out.gdti
            /\ start_returned' = TRUE
            /\ start_res' = out.res
            /\ gdti_tried' = out.tried
            /\ last' = NoObservation
            /\ noted' = NoObservation
            /\ UNCHANGED <<registry, hasServer, hasSubscriber, hasPublisher>>

\* cats_srv_ delivers a request to its handler with a zeroed response
HandleComputeAggregateTypeSignature ==
    /\ cats_started
    /\ \E request \in CatsRequests, note \in NoteChoices :
        LET out == handleComputeAggregateTypeSignatureRequest(
                       request, ZeroCatsResponse)
        IN  /\ last' = Observation("cats", request, out)
            /\ noted' = IF note THEN last ELSE noted
    /\ UNCHANGED <<registry, hasServer, hasSubscriber, hasPublisher,
                   cats_started, gdti_started, start_returned, start_res,
                   gdti_tried>>

\* gdti_srv_ delivers a request to its handler with a zeroed response
HandleGetDataTypeInfo ==
    /\ gdti_started
    /\ \E request \in GdtiRequests, note \in NoteChoices :
        LET out == handleGetDataTypeInfoRequest(request, ZeroGdtiResponse)
        IN  /\ last' = Observation("gdti", request, out)
            /\ noted' = IF note THEN last ELSE noted
    /\ UNCHANGED <<registry, hasServer, hasSubscriber, hasPublisher,
                   cats_started, gdti_started, start_returned, start_res,
                   gdti_tried>>

Next ==
    \/ Start
    \/ HandleComputeAggregateTypeSignature
    \/ HandleGetDataTypeInfo

Spec == Init /\ [][Next]_vars

----------------------------------------------------------------------------
(* Properties *)

LastIsCats == last.op = "cats"
LastIsGdti == last.op = "gdti"

\* the size of the id space of a kind
IdSpaceSize(kind) == getMaxValueForDataTypeKind(kind) + 1

\* positions at which masks are compared: those a request can set, and the
\* edges of the request lengths and of the two id spaces
ProbedPositions ==
    MaskPositions \cup {0, 2, 3, 255, 256, 65535, 65536}

\* the signatures obtained by mixing the descriptors in every possible order
RECURSIVE MixInEveryOrder(_, _)
MixInEveryOrder(descs, acc) ==
    IF descs = {} THEN {acc}
    ELSE UNION {MixInEveryOrder(descs \ {d}, SignatureExtend(acc, d.sig)) :
                    d \in descs}

DescriptorsOfKind(kind) == {d \in registry : d.kind = kind}

\* the descriptors a GetDataTypeInfo request designates in the registry
Designated(request) ==
    IF request.name = ""
    THEN {d \in registry : d.kind = request.kind /\ d.id = request.id}
    ELSE {d \in registry : d.name = request.name}

\* C1: for a valid kind, the mask returned by the aggregate-signature
\* handler has length maxValue(kind)+1, whatever the length of the request
\* mask.
C1_MaskLengthIsIdSpaceSize ==
    (LastIsCats /\ isValidDataTypeKind(last.request.kind)) =>
        last.response.mutually_known_ids.len = IdSpaceSize(last.request.kind)

\* C2: for a valid kind, the returned mask is the request mask zero-extended
\* or truncated to the id space: below both lengths the bits agree, and at
\* or beyond the request's length every bit is zero.
C2_MaskIsZeroExtension ==
    (LastIsCats /\ isValidDataTypeKind(last.request.kind)) =>
        LET m == last.request.known_ids
            r == last.response.mutually_known_ids
            n == IdSpaceSize(last.request.kind)
        IN  \A i \in ProbedPositions :
                /\ (i < m.len /\ i < n) => (MaskBit(r, i) <=> MaskBit(m, i))
                /\ (i >= m.len) => ~MaskBit(r, i)

C4_InvalidKindNoOutput ==
    /\ (LastIsCats /\ ~isValidDataTypeKind(last.request.kind)) =>
           (last.response = ZeroCatsResponse /\ last.called = "none")
    /\ (LastIsGdti /\ ~isValidDataTypeKind(last.request.kind)) =>
           /\ last.response.signature = ZeroSignature
           /\ last.response.mask = 0
           /\ last.response.name \in {"", last.request.name}
           /\ last.response.id \in {0, last.request.id}
           /\ last.response.kind \in {0, last.request.kind}
           /\ last.called = "none"

\* C4 amended: for an invalid kind, the aggregate-signature handler leaves
\* the zeroed response unchanged and makes no registry call; the
\* GetDataTypeInfo handler, when the request name is empty, writes only the
\* echoed id and kind and makes no registry call.
C4_InvalidKindIdBranch ==
    /\ (LastIsCats /\ ~isValidDataTypeKind(last.request.kind)) =>
           (last.response = ZeroCatsResponse /\ last.called = "none")
    /\ (LastIsGdti /\ ~isValidDataTypeKind(last.request.kind)
                   /\ last.request.name = "") =>
           /\ last.response = [ZeroGdtiResponse EXCEPT
                                   !.id = last.request.id,
                                   !.kind = last.request.kind]
           /\ last.called = "none"

C4_Witness ==
    /\ LastIsGdti
    /\ ~isValidDataTypeKind(last.request.kind)
    /\ last.request.name = ""
    /\ last.request.id = 20
    /\ noted.op = "cats"
    /\ ~isValidDataTypeKind(noted.request.kind)
    /\ noted.request.known_ids.bits # {}

\* C5: when the registry holds no descriptor for the query, an id-based
\* response carries only the request's id and kind, a name-based response
\* only the request's name, and the known bit is not set.
C5_NotFoundEchoOnly ==
    (LastIsGdti /\ Designated(last.request) = {}) =>
        /\ (last.request.name = "" /\ isValidDataTypeKind(last.request.kind)) =>
               last.response = [ZeroGdtiResponse EXCEPT
                                    !.id = last.request.id,
                                    !.kind = last.request.kind]
        /\ (last.request.name # "") =>
               last.response = [ZeroGdtiResponse EXCEPT
                                    !.name = last.request.name]
        /\ ((last.request.name = "") => isValidDataTypeKind(last.request.kind))
               => ~HasBit(last.response.mask, MASK_KNOWN)

C5_Witness ==
    /\ LastIsGdti
    /\ last.request.name = "no.Such"
    /\ last.request.kind = DataTypeKindMessage
    /\ last.request.id = 20
    /\ last.called = "find_name"
    /\ noted.op = "gdti"
    /\ noted.request.name = ""
    /\ noted.request.kind = DataTypeKindService
    /\ noted.request.id = 20
    /\ noted.called = "find_kind_id"
    /\ Designated(noted.request) = {}
    /\ registry # {}

\* C6: when the lookup finds a descriptor, signature, id, kind and name of
\* the response are the descriptor's, whatever the request carried, and the
\* known bit is set.
C6_FoundFillsFromDescriptor ==
    (LastIsGdti /\ (last.request.name = "" =>
                        isValidDataTypeKind(last.request.kind))) =>
        \A d \in Designated(last.request) :
            /\ last.response.signature = d.sig
            /\ last.response.id = d.id
            /\ last.response.kind = d.kind
            /\ last.response.name = d.name
            /\ HasBit(last.response.mask, MASK_KNOWN)

C6_Witness ==
    /\ LastIsGdti
    /\ last.request.name = "foo.Bar"
    /\ last.request.id = 1
    /\ last.request.kind = DataTypeKindService
    /\ last.response.id = 20
    /\ last.response.kind = DataTypeKindMessage
    /\ last.response.signature = <<43707, 52445, 4386, 13124>>

\* C7: the status mask of a found descriptor is exactly: known; serving iff
\* it is a service with a server; subscribed iff it is a message with a
\* subscriber; publishing iff it is a message with a publisher.
C7_StatusMaskExact ==
    (LastIsGdti /\ (last.request.name = "" =>
                        isValidDataTypeKind(last.request.kind))) =>
        \A d \in Designated(last.request) :
            /\ HasBit(last.response.mask, MASK_KNOWN)
            /\ HasBit(last.response.mask, MASK_SERVING) <=>
                   (d.kind = DataTypeKindService /\ d.id \in hasServer)
            /\ HasBit(last.response.mask, MASK_SUBSCRIBED) <=>
                   (d.kind = DataTypeKindMessage /\ d.id \in hasSubscriber)
            /\ HasBit(last.response.mask, MASK_PUBLISHING) <=>
                   (d.kind = DataTypeKindMessage /\ d.id \in hasPublisher)
            /\ last.response.mask < 2 * MASK_SERVING

C7_Witness ==
    /\ hasServer = {20} /\ hasSubscriber = {20} /\ hasPublisher = {20}
    /\ LastIsGdti
    /\ Designated(last.request) # {}
    /\ last.response.kind = DataTypeKindMessage
    /\ last.response.id = 20
    /\ last.response.mask = MASK_KNOWN + MASK_SUBSCRIBED + MASK_PUBLISHING
    /\ noted.op = "gdti"
    /\ Designated(noted.request) # {}
    /\ noted.response.kind = DataTypeKindService
    /\ noted.response.id = 20
    /\ noted.response.mask = MASK_KNOWN + MASK_SERVING

\* C8: once start() has returned, either both handlers are registered and
\* the result is not negative, or neither is and the result is the negative
\* code of the registration that failed; gdti_srv_.start() is not called
\* when cats_srv_.start() failed.
C8_StartIsAtomic ==
    start_returned =>
        \/ /\ cats_started /\ gdti_started
           /\ start_res >= 0
           /\ gdti_tried
        \/ /\ ~cats_started /\ ~gdti_started
           /\ start_res < 0
           /\ IF gdti_tried
              THEN start_res \in GdtiStartResults
              ELSE start_res \in CatsStartResults

C8_Witness ==
    /\ start_returned
    /\ gdti_tried
    /\ start_res < 0
    /\ ~cats_started

C10_NameBranchIgnoresKindAndId ==
    LastIsGdti =>
        /\ (last.called = "find_name") <=> (last.request.name # "")
        /\ (noted.op = "gdti" /\ last.request.name # ""
                              /\ noted.request.name = last.request.name) =>
               noted.response = last.response
        /\ (last.request.name # "" /\ Designated(last.request) = {}) =>
               (last.response.id = 0 /\ last.response.kind = 0)

C10_Witness ==
    /\ LastIsGdti
    /\ noted.op = "gdti"
    /\ last.request.name = "no.Such"
    /\ noted.request.name = "no.Such"
    /\ last.request.id # noted.request.id
    /\ ~isValidDataTypeKind(last.request.kind)
    /\ noted.request.kind = DataTypeKindMessage

====
